---- MODULE Spec2Model ----
(***************************************************************************)
(* A state-machine model of time_loguru.tracker: the TimeTracker, its      *)
(* scoped timer (_TaskContext), the sample store, the configuration and    *)
(* the summary, with the threading.Lock that guards them.                  *)
(*                                                                         *)
(* Durations are whole ticks (the naturals stand for the floats the code   *)
(* stores); an average is the exact fraction total/count, kept as          *)
(* [num, den] and compared by cross-multiplication.  A task name is the    *)
(* sequence of its characters, so that strip(), lower() and the string     *)
(* order are computed and not assumed.  A Python list is an object on the  *)
(* heap: the store maps a task to the identity of its list, and a copy of  *)
(* the store's items copies identities, not contents.                      *)
(***************************************************************************)
EXTENDS Integers, Sequences, FiniteSets, TLC

\* Bounds of the model.
MaxCalls == 3
MaxSamples == 3

None == "None"

Threads == {"t1", "t2"}
MainThread == "t1"
NoThread == "nobody"

ClockValues == {0, 1}
NoInstant == -1

----------------------------------------------------------------------------
\* Strings as sequences of characters.

Whitespace == {" "}

CharCode ==
    [c \in {" ", "B", "a", "b", "c"} |->
        CASE c = " " -> 32 [] c = "B" -> 66 [] c = "a" -> 97
          [] c = "b" -> 98 [] c = "c" -> 99]

LowerChar(c) == IF c = "B" THEN "b" ELSE c

lower(s) == [i \in 1..Len(s) |-> LowerChar(s[i])]

RECURSIVE lstrip(_)
lstrip(s) ==
    IF s # <<>> /\ Head(s) \in Whitespace THEN lstrip(Tail(s)) ELSE s

RECURSIVE rstrip(_)
rstrip(s) ==
    IF s # <<>> /\ s[Len(s)] \in Whitespace
    THEN rstrip(SubSeq(s, 1, Len(s) - 1))
    ELSE s

strip_keep(s) == s

strip(s) == rstrip(lstrip(s))

\* s < t in Python's order of strings: by code point, a proper prefix first.
RECURSIVE StrLess(_, _)
StrLess(s, t) ==
    IF t = <<>> THEN FALSE
    ELSE IF s = <<>> THEN TRUE
    ELSE IF CharCode[Head(s)] # CharCode[Head(t)]
         THEN CharCode[Head(s)] < CharCode[Head(t)]
         ELSE StrLess(Tail(s), Tail(t))

\* What a caller may pass as the task argument: a str, or something else.
Str(chars) == [isStr |-> TRUE, chars |-> chars]
NotAStr == [isStr |-> FALSE, chars |-> <<>>]

Levels == {"TRACE", "DEBUG", "INFO", "SUCCESS", "WARNING", "ERROR", "CRITICAL"}

----------------------------------------------------------------------------
\* Sequences of numbers, as the builtins sum, min and max compute them.

RECURSIVE sum(_)
sum(d) == IF d = <<>> THEN 0 ELSE Head(d) + sum(Tail(d))

RECURSIVE min(_)
min(d) ==
    IF Len(d) = 1 THEN d[1]
    ELSE LET m == min(Tail(d)) IN IF m < Head(d) THEN m ELSE Head(d)

RECURSIVE max(_)
max(d) ==
    IF Len(d) = 1 THEN d[1]
    ELSE LET m == max(Tail(d)) IN IF m > Head(d) THEN m ELSE Head(d)

Max0(x) == IF x > 0 THEN x ELSE 0

----------------------------------------------------------------------------
VARIABLES
    lock,            \* self._lock: the thread holding it, or NoThread
    records,         \* self._records: the dict, in insertion order, of
                     \*   [task, list]; list is the identity of a heap list
    heap,            \* the list objects: identity -> sequence of samples
    emit_each,       \* self._emit_each
    time_unit,       \* self._time_unit
    summary_level,   \* self._summary_level
    event_sink_ids,  \* self._event_sink_ids
    sink,            \* the logger: the messages it has received, in order
    handlers,        \* the logger: how many sinks were added to it
    pc,              \* per thread: where it is
    args,            \* per thread: the arguments of the call in progress
    timer,           \* per thread: its _TaskContext (task, level, t0)
    local,           \* per thread: the locals of the call in progress
    outcome,         \* the call that the last step completed, if it did
    calls            \* the number of calls counted against MaxCalls

shared == <<lock, records, heap, emit_each, time_unit, summary_level,
            event_sink_ids>>
logger == <<sink, handlers>>
vars == <<lock, records, heap, emit_each, time_unit, summary_level,
          event_sink_ids, sink, handlers, pc, args, timer, local, outcome,
          calls>>

NoArgs == [op |-> "none"]
NoTimer == [task |-> <<>>, level |-> "none", t0 |-> NoInstant]
NoOutcome ==
    [thread |-> NoThread, op |-> "none", kind |-> "none", value |-> "none",
     reset |-> FALSE]

\* The locals a thread's call may hold; a call that ends drops them all.
NoText == [unit |-> "none", num |-> 0, den |-> 1]
NoCur == [total |-> 0, count |-> 0, min |-> 0, max |-> 0]
NoRendered == [nodata |-> FALSE, rows |-> <<>>, grand |-> NoText]
NoLocal ==
    [elapsed |-> 0, exc |-> "None", text |-> NoText,
     items |-> <<>>, i |-> 0, cur |-> NoCur, stats |-> <<>>,
     cells |-> <<>>, rendered |-> NoRendered, level |-> "none",
     sink_id |-> 0]

Init ==
    /\ lock = NoThread
    /\ records = <<>>
    /\ heap = <<>>
    /\ emit_each = FALSE
    /\ time_unit = "s"
    /\ summary_level = "INFO"
    /\ event_sink_ids = <<>>
    /\ sink = <<>>
    /\ handlers = 0
    /\ pc = [t \in Threads |-> "idle"]
    /\ args = [t \in Threads |-> NoArgs]
    /\ timer = [t \in Threads |-> NoTimer]
    /\ local = [t \in Threads |-> NoLocal]
    /\ outcome = NoOutcome
    /\ calls = 0

----------------------------------------------------------------------------
\* The store as a dict: lookup by key, and the lists still referenced.

HasKey(recs, task) == \E k \in 1..Len(recs) : recs[k].task = task

ListOf(recs, task) ==
    recs[CHOOSE k \in 1..Len(recs) : recs[k].task = task].list

Refs(recs, loc) ==
    {recs[k].list : k \in 1..Len(recs)} \cup
    UNION {{loc[t].items[k].list : k \in 1..Len(loc[t].items)} : t \in Threads}

RECURSIVE TrimFree(_)
TrimFree(h) ==
    IF h # <<>> /\ h[Len(h)] = <<>>
    THEN TrimFree(SubSeq(h, 1, Len(h) - 1))
    ELSE h

\* Reference counting frees a list nothing refers to any more.
Collect(h, recs, loc) ==
    TrimFree([id \in 1..Len(h) |->
                 IF id \in Refs(recs, loc) THEN h[id] ELSE <<>>])

\* The identity of a new list: the first one free.
FreshList(h) ==
    IF \E id \in 1..Len(h) : h[id] = <<>>
    THEN CHOOSE id \in 1..Len(h) :
            h[id] = <<>> /\ \A j \in 1..(id - 1) : h[j] # <<>>
    ELSE Len(h) + 1

Samples(recs, h, task) == IF HasKey(recs, task) THEN h[ListOf(recs, task)] ELSE <<>>

TotalSamples(recs, h) == sum([k \in 1..Len(recs) |-> Len(h[recs[k].list])])

----------------------------------------------------------------------------
\* Ending a call: the caller sees a return value or an exception.

Return(t, op, value) ==
    /\ pc' = [pc EXCEPT ![t] = "idle"]
    /\ args' = [args EXCEPT ![t] = NoArgs]
    /\ outcome' = [thread |-> t, op |-> op, kind |-> "returned",
                   value |-> value,
                   reset |-> args[t].op = "summary" /\ args[t].reset]

Raise(t, op, error) ==
    /\ pc' = [pc EXCEPT ![t] = "idle"]
    /\ args' = [args EXCEPT ![t] = NoArgs]
    /\ outcome' = [thread |-> t, op |-> op, kind |-> "raised",
                   value |-> error,
                   reset |-> args[t].op = "summary" /\ args[t].reset]

\* A step that does not end the call.
Goto(t, label) ==
    /\ pc' = [pc EXCEPT ![t] = label]
    /\ outcome' = NoOutcome

Acquire(t) == lock = NoThread /\ lock' = t

Release_keep(t) == lock' = lock

Release(t) == lock' = NoThread

----------------------------------------------------------------------------
\* _fmt_time: a duration in seconds, as text in the unit read from the
\* configuration; the text is the unit and the number printed.

fmt_time(unit, num, den) ==
    IF unit = "ms"
    THEN [unit |-> "ms", num |-> num * 1000, den |-> den]
    ELSE [unit |-> "s", num |-> num, den |-> den]

----------------------------------------------------------------------------
\* The level entry points and _ctx: `with tracker.<level>(task): ...`

Call(t, a) ==
    /\ pc[t] = "idle"
    /\ calls < MaxCalls
    /\ calls = 0 => t = MainThread
    /\ calls' = calls + 1
    /\ args' = [args EXCEPT ![t] = a]

CtxCall(t, tasks, level) ==
    /\ \E task \in tasks : Call(t, [op |-> "timed", task |-> task, level |-> level])
    /\ Goto(t, "ctx")
    /\ UNCHANGED <<shared, logger, timer, local>>

trace(t, tasks) == CtxCall(t, tasks, "TRACE")
debug(t, tasks) == CtxCall(t, tasks, "DEBUG")
info(t, tasks) == CtxCall(t, tasks, "INFO")
success(t, tasks) == CtxCall(t, tasks, "SUCCESS")
warning(t, tasks) == CtxCall(t, tasks, "WARNING")
error(t, tasks) == CtxCall(t, tasks, "ERROR")
critical(t, tasks) == CtxCall(t, tasks, "CRITICAL")

ctx(t) ==
    /\ pc[t] = "ctx"
    /\ IF ~args[t].task.isStr \/ strip(args[t].task.chars) = <<>>
       THEN /\ Raise(t, "timed", "ValueError")
            /\ UNCHANGED timer
       ELSE /\ timer' = [timer EXCEPT ![t] =
                            [task |-> strip(args[t].task.chars),
                             level |-> args[t].level,
                             t0 |-> NoInstant]]
            /\ Goto(t, "with")
            /\ args' = [args EXCEPT ![t] = NoArgs]
    /\ UNCHANGED <<shared, logger, local, calls>>

\* _TaskContext.__enter__
enter(t) ==
    /\ pc[t] = "with"
    /\ \E now \in ClockValues :
          timer' = [timer EXCEPT ![t].t0 = now]
    /\ Goto(t, "body")
    /\ UNCHANGED <<shared, logger, args, local, calls>>

\* t1 - t0, with no floor at zero.
elapsed_raw(t0, t1) == t1 - t0

\* elapsed = max(0.0, t1 - t0)
elapsed_of(t0, t1) == Max0(t1 - t0)

\* The guarded block ends, normally or with an error, and __exit__ runs up
\* to its call of _record.
exit(t, errors) ==
    /\ pc[t] = "body"
    /\ \E e \in {"None"} \cup errors, t1 \in ClockValues :
          LET t0 == IF timer[t].t0 # NoInstant THEN timer[t].t0 ELSE t1
          IN local' = [local EXCEPT ![t].exc = e,
                                    ![t].elapsed = elapsed_of(t0, t1)]
    /\ Goto(t, "rec_lock")
    /\ UNCHANGED <<shared, logger, args, timer, calls>>

\* A caller that releases a timer it never entered: no error, no start.
exit_unentered(t) ==
    /\ pc[t] = "with"
    /\ \E t1 \in ClockValues :
          LET t0 == IF timer[t].t0 # NoInstant THEN timer[t].t0 ELSE t1
          IN local' = [local EXCEPT ![t].elapsed = elapsed_of(t0, t1)]
    /\ Goto(t, "rec_lock")
    /\ UNCHANGED <<shared, logger, args, timer, calls>>

----------------------------------------------------------------------------
\* _record

record_lock(t) ==
    /\ pc[t] = "rec_lock"
    /\ Acquire(t)
    /\ Goto(t, "rec_append")
    /\ UNCHANGED <<records, heap, emit_each, time_unit, summary_level,
                   event_sink_ids, logger, args, timer, local, calls>>

\* self._records.setdefault(task, []).insert(0, elapsed_s): the new sample
\* goes in front.
setdefault_prepend(recs, h, task, x) ==
    IF HasKey(recs, task)
    THEN [recs |-> recs,
          heap |-> [h EXCEPT ![ListOf(recs, task)] = <<x>> \o @]]
    ELSE LET id == FreshList(h)
         IN [recs |-> Append(recs, [task |-> task, list |-> id]),
             heap |-> IF id > Len(h) THEN Append(h, <<x>>)
                      ELSE [h EXCEPT ![id] = <<x>>]]

\* self._records[task] = [elapsed_s]: a store that keeps only the newest
\* sample of a task, which is what a lost update leaves behind.
setdefault_assign(recs, h, task, x) ==
    IF HasKey(recs, task)
    THEN [recs |-> recs, heap |-> [h EXCEPT ![ListOf(recs, task)] = <<x>>]]
    ELSE LET id == FreshList(h)
         IN [recs |-> Append(recs, [task |-> task, list |-> id]),
             heap |-> IF id > Len(h) THEN Append(h, <<x>>)
                      ELSE [h EXCEPT ![id] = <<x>>]]

\* self._records.setdefault(task, []).append(elapsed_s)
setdefault_append(recs, h, task, x) ==
    IF HasKey(recs, task)
    THEN [recs |-> recs,
          heap |-> [h EXCEPT ![ListOf(recs, task)] = Append(@, x)]]
    ELSE LET id == FreshList(h)
         IN [recs |-> Append(recs, [task |-> task, list |-> id]),
             heap |-> IF id > Len(h) THEN Append(h, <<x>>)
                      ELSE [h EXCEPT ![id] = <<x>>]]

\* A release that goes on to the emission without its append.
record_append_skipped(t) ==
    /\ pc[t] = "rec_append"
    /\ Goto(t, "rec_unlock")
    /\ UNCHANGED <<shared, logger, args, timer, local, calls>>

record_append(t) ==
    /\ pc[t] = "rec_append"
    /\ LET r == setdefault_append(records, heap, timer[t].task, local[t].elapsed)
       IN /\ records' = r.recs
          /\ heap' = r.heap
    /\ Goto(t, "rec_unlock")
    /\ UNCHANGED <<lock, emit_each, time_unit, summary_level, event_sink_ids,
                   logger, args, timer, local, calls>>

record_unlock(t) ==
    /\ pc[t] = "rec_unlock"
    /\ Release(t)
    /\ Goto(t, "rec_emit")
    /\ UNCHANGED <<records, heap, emit_each, time_unit, summary_level,
                   event_sink_ids, logger, args, timer, local, calls>>

\* __exit__ returns False: the error of the guarded block, if any, goes on
\* to the caller.
exit_return(t) ==
    /\ IF local[t].exc # "None"
       THEN Raise(t, "timed", local[t].exc)
       ELSE Return(t, "timed", "None")
    /\ timer' = [timer EXCEPT ![t] = NoTimer]
    /\ local' = [local EXCEPT ![t] = NoLocal]

\* if self._emit_each:
record_emit_each(t) ==
    /\ pc[t] = "rec_emit"
    /\ IF emit_each
       THEN Goto(t, "rec_fmt") /\ UNCHANGED <<args, timer, local>>
       ELSE exit_return(t)
    /\ UNCHANGED <<shared, logger, calls>>

\* "OK", or "EXC:" and the name of the error's type
Status(exc) ==
    IF exc = "None" THEN [tag |-> "OK", name |-> ""]
    ELSE [tag |-> "EXC:", name |-> exc]

\* elapsed=self._fmt_time(elapsed_s), an argument of bound.log
record_fmt(t) ==
    /\ pc[t] = "rec_fmt"
    /\ local' = [local EXCEPT ![t].text = fmt_time(time_unit, local[t].elapsed, 1)]
    /\ Goto(t, "rec_log")
    /\ UNCHANGED <<shared, logger, args, timer, calls>>

EventMessage(t) ==
    [kind |-> "event", level |-> timer[t].level, task |-> timer[t].task,
     elapsed_s |-> local[t].elapsed, status |-> Status(local[t].exc),
     elapsed |-> local[t].text]

\* bound.log(...): the logger takes the line and returns
record_log(t) ==
    /\ pc[t] = "rec_log"
    /\ sink' = Append(sink, EventMessage(t))
    /\ exit_return(t)
    /\ UNCHANGED <<shared, handlers, calls>>

\* bound.log(...): the logger fails, and its error leaves __exit__
record_log_fails(t) ==
    /\ pc[t] = "rec_log"
    /\ Raise(t, "timed", "LoggerError")
    /\ timer' = [timer EXCEPT ![t] = NoTimer]
    /\ local' = [local EXCEPT ![t] = NoLocal]
    /\ UNCHANGED <<shared, logger, calls>>

----------------------------------------------------------------------------
\* configure(emit_each=, time_unit=, summary_level=)

bool(v) == v = "True"

ConfigureArgs(e, u, l) ==
    [op |-> "configure", emit_each |-> e, time_unit |-> u, summary_level |-> l]

configure(t, choices) ==
    /\ \E a \in choices : Call(t, a)
    /\ Goto(t, "cfg_lock")
    /\ UNCHANGED <<shared, logger, timer, local>>

configure_lock(t) ==
    /\ pc[t] = "cfg_lock"
    /\ Acquire(t)
    /\ Goto(t, "cfg_emit")
    /\ UNCHANGED <<records, heap, emit_each, time_unit, summary_level,
                   event_sink_ids, logger, args, timer, local, calls>>

configure_emit_each(t) ==
    /\ pc[t] = "cfg_emit"
    /\ emit_each' = IF args[t].emit_each # None
                    THEN bool(args[t].emit_each) ELSE emit_each
    /\ Goto(t, "cfg_unit")
    /\ UNCHANGED <<lock, records, heap, time_unit, summary_level,
                   event_sink_ids, logger, args, timer, local, calls>>

TimeUnits == {"ms", "s"}

\* A configure that raises on an unknown unit without letting the lock go.
configure_time_unit_locked(t) ==
    /\ pc[t] = "cfg_unit"
    /\ IF args[t].time_unit # None /\ args[t].time_unit \notin {"ms", "s"}
       THEN /\ Raise(t, "configure", "ValueError")
            /\ UNCHANGED <<lock, time_unit>>
       ELSE /\ time_unit' = IF args[t].time_unit # None
                            THEN args[t].time_unit ELSE time_unit
            /\ Goto(t, "cfg_level")
            /\ UNCHANGED <<lock, args>>
    /\ UNCHANGED <<records, heap, emit_each, summary_level, event_sink_ids,
                   logger, timer, local, calls>>

\* An unknown unit raises inside `with self._lock`, which lets the lock go.
configure_time_unit(t) ==
    /\ pc[t] = "cfg_unit"
    /\ IF args[t].time_unit # None /\ args[t].time_unit \notin TimeUnits
       THEN /\ Release(t)
            /\ Raise(t, "configure", "ValueError")
            /\ UNCHANGED time_unit
       ELSE /\ time_unit' = IF args[t].time_unit # None
                            THEN args[t].time_unit ELSE time_unit
            /\ Goto(t, "cfg_level")
            /\ UNCHANGED <<lock, args>>
    /\ UNCHANGED <<records, heap, emit_each, summary_level, event_sink_ids,
                   logger, timer, local, calls>>

configure_summary_level(t) ==
    /\ pc[t] = "cfg_level"
    /\ summary_level' = IF args[t].summary_level # None
                        THEN args[t].summary_level ELSE summary_level
    /\ Goto(t, "cfg_unlock")
    /\ UNCHANGED <<lock, records, heap, emit_each, time_unit, event_sink_ids,
                   logger, args, timer, local, calls>>

configure_unlock(t) ==
    /\ pc[t] = "cfg_unlock"
    /\ Release(t)
    /\ Return(t, "configure", "self")
    /\ UNCHANGED <<records, heap, emit_each, time_unit, summary_level,
                   event_sink_ids, logger, timer, local, calls>>

----------------------------------------------------------------------------
\* add_event_sink(file_path)

add_event_sink(t) ==
    /\ Call(t, [op |-> "add_event_sink"])
    /\ Goto(t, "sink_add")
    /\ UNCHANGED <<shared, logger, timer, local>>

\* self._logger.add(...): the logger registers the sink and returns its id
logger_add(t) ==
    /\ pc[t] = "sink_add"
    /\ handlers' = handlers + 1
    /\ local' = [local EXCEPT ![t].sink_id = handlers + 1]
    /\ Goto(t, "sink_lock")
    /\ UNCHANGED <<shared, sink, args, timer, calls>>

logger_add_fails(t) ==
    /\ pc[t] = "sink_add"
    /\ Raise(t, "add_event_sink", "LoggerError")
    /\ UNCHANGED <<shared, logger, timer, local, calls>>

sink_lock(t) ==
    /\ pc[t] = "sink_lock"
    /\ Acquire(t)
    /\ Goto(t, "sink_append")
    /\ UNCHANGED <<records, heap, emit_each, time_unit, summary_level,
                   event_sink_ids, logger, args, timer, local, calls>>

sink_append(t) ==
    /\ pc[t] = "sink_append"
    /\ event_sink_ids' = Append(event_sink_ids, local[t].sink_id)
    /\ Goto(t, "sink_unlock")
    /\ UNCHANGED <<lock, records, heap, emit_each, time_unit, summary_level,
                   logger, args, timer, local, calls>>

sink_unlock(t) ==
    /\ pc[t] = "sink_unlock"
    /\ Release(t)
    /\ Return(t, "add_event_sink", "sink_id")
    /\ local' = [local EXCEPT ![t] = NoLocal]
    /\ UNCHANGED <<records, heap, emit_each, time_unit, summary_level,
                   event_sink_ids, logger, timer, calls>>

----------------------------------------------------------------------------
\* clear(), called by the user or by summary(reset=True)

clear(t) ==
    /\ Call(t, [op |-> "clear"])
    /\ Goto(t, "clr_lock")
    /\ UNCHANGED <<shared, logger, timer, local>>

clear_lock(t) ==
    /\ pc[t] = "clr_lock"
    /\ Acquire(t)
    /\ Goto(t, "clr_clear")
    /\ UNCHANGED <<records, heap, emit_each, time_unit, summary_level,
                   event_sink_ids, logger, args, timer, local, calls>>

\* A clear that also puts the configuration back to its defaults.
clear_records_and_configuration(t) ==
    /\ pc[t] = "clr_clear"
    /\ records' = <<>>
    /\ heap' = Collect(heap, <<>>, local)
    /\ emit_each' = FALSE
    /\ time_unit' = "s"
    /\ summary_level' = "INFO"
    /\ Goto(t, "clr_unlock")
    /\ UNCHANGED <<lock, event_sink_ids, logger, args, timer, local, calls>>

\* A clear that clears nothing.
clear_records_kept(t) ==
    /\ pc[t] = "clr_clear"
    /\ Goto(t, "clr_unlock")
    /\ UNCHANGED <<shared, logger, args, timer, local, calls>>

\* self._records.clear(): the dict forgets its lists; a list lives on only
\* while a snapshot still refers to it.
clear_records(t) ==
    /\ pc[t] = "clr_clear"
    /\ records' = <<>>
    /\ heap' = Collect(heap, <<>>, local)
    /\ Goto(t, "clr_unlock")
    /\ UNCHANGED <<lock, emit_each, time_unit, summary_level, event_sink_ids,
                   logger, args, timer, local, calls>>

\* summary: return rendered
summary_return(t) ==
    /\ Return(t, "summary", "rendered")
    /\ local' = [local EXCEPT ![t] = NoLocal]

clear_unlock(t) ==
    /\ pc[t] = "clr_unlock"
    /\ Release(t)
    /\ IF args[t].op = "summary"
       THEN summary_return(t)
       ELSE Return(t, "clear", "None") /\ UNCHANGED local
    /\ UNCHANGED <<records, heap, emit_each, time_unit, summary_level,
                   event_sink_ids, logger, timer, calls>>

----------------------------------------------------------------------------
\* summary(sort_by=, descending=, limit=, reset=): _compute_stats

NoLimit == [given |-> FALSE, n |-> 0]
Limit(n) == [given |-> TRUE, n |-> n]

SummaryArgs(s, d, l, r) ==
    [op |-> "summary", sort_by |-> s, descending |-> d, limit |-> l,
     reset |-> r]

summary(t, choices) ==
    /\ \E a \in choices : Call(t, a)
    /\ Goto(t, "cs_lock")
    /\ UNCHANGED <<shared, logger, timer, local>>

compute_lock(t) ==
    /\ pc[t] = "cs_lock"
    /\ Acquire(t)
    /\ Goto(t, "cs_items")
    /\ UNCHANGED <<records, heap, emit_each, time_unit, summary_level,
                   event_sink_ids, logger, args, timer, local, calls>>

\* items = list(self._records.items()): the pairs are copied, and each pair
\* holds the store's own list, not a copy of it.
items_of(recs, h) == recs

compute_items(t) ==
    /\ pc[t] = "cs_items"
    /\ local' = [local EXCEPT ![t].items = items_of(records, heap)]
    /\ Goto(t, "cs_unlock")
    /\ UNCHANGED <<shared, logger, args, timer, calls>>

compute_unlock(t) ==
    /\ pc[t] = "cs_unlock"
    /\ Release(t)
    /\ local' = [local EXCEPT ![t].i = 1, ![t].stats = <<>>]
    /\ Goto(t, IF local[t].items = <<>> THEN "sum_sort" ELSE "cs_sum")
    /\ UNCHANGED <<records, heap, emit_each, time_unit, summary_level,
                   event_sink_ids, logger, args, timer, calls>>

\* d of `for task, d in items`, as the list is when it is read
d_of(t) == heap[local[t].items[local[t].i].list]

\* The loop goes on to the next item, or _compute_stats returns and its
\* items are dropped.
next_item(t, out) ==
    IF local[t].i < Len(local[t].items)
    THEN /\ local' = [local EXCEPT ![t].i = @ + 1, ![t].stats = out,
                                   ![t].cur = NoCur]
         /\ Goto(t, "cs_sum")
         /\ UNCHANGED heap
    ELSE /\ local' = [local EXCEPT ![t].i = 0, ![t].stats = out,
                                   ![t].cur = NoCur, ![t].items = <<>>]
         /\ Goto(t, "sum_sort")
         /\ heap' = Collect(heap, records, local')

\* if not d: continue; total = float(sum(d)).  A list in the store is
\* never empty and only grows, so the test and the sum read it once here.
compute_sum(t) ==
    /\ pc[t] = "cs_sum"
    /\ IF d_of(t) = <<>>
       THEN next_item(t, local[t].stats)
       ELSE /\ local' = [local EXCEPT ![t].cur.total = sum(d_of(t))]
            /\ Goto(t, "cs_len")
            /\ UNCHANGED heap
    /\ UNCHANGED <<lock, records, emit_each, time_unit, summary_level,
                   event_sink_ids, logger, args, timer, calls>>

\* count = len(d)
compute_len(t) ==
    /\ pc[t] = "cs_len"
    /\ local' = [local EXCEPT ![t].cur.count = Len(d_of(t))]
    /\ Goto(t, "cs_min")
    /\ UNCHANGED <<shared, logger, args, timer, calls>>

\* min_s=float(min(d))
compute_min(t) ==
    /\ pc[t] = "cs_min"
    /\ local' = [local EXCEPT ![t].cur.min = min(d_of(t))]
    /\ Goto(t, "cs_max")
    /\ UNCHANGED <<shared, logger, args, timer, calls>>

\* max_s=float(max(d))
compute_max(t) ==
    /\ pc[t] = "cs_max"
    /\ local' = [local EXCEPT ![t].cur.max = max(d_of(t))]
    /\ Goto(t, "cs_last")
    /\ UNCHANGED <<shared, logger, args, timer, calls>>

last_first(d) == d[1]

last(d) == d[Len(d)]

TaskStats(task, cur, last_s) ==
    [task |-> task, count |-> cur.count, total_s |-> cur.total,
     avg_s |-> [num |-> cur.total, den |-> cur.count],
     min_s |-> cur.min, max_s |-> cur.max, last_s |-> last_s]

\* last_s=float(d[-1]), and out.append(TaskStats(...))
compute_last(t) ==
    /\ pc[t] = "cs_last"
    /\ next_item(t, Append(local[t].stats,
                           TaskStats(local[t].items[local[t].i].task,
                                     local[t].cur, last(d_of(t)))))
    /\ UNCHANGED <<lock, records, emit_each, time_unit, summary_level,
                   event_sink_ids, logger, args, timer, calls>>

----------------------------------------------------------------------------
\* summary: the sort, the limit, _render_summary, the emission, the reset

SortKeys == {"total", "avg", "count", "max", "min", "task"}

\* key(a) < key(b) for the key function of sort_by
KeyLess(sort_by, a, b) ==
    CASE sort_by = "total" -> a.total_s < b.total_s
      [] sort_by = "avg" ->
            a.avg_s.num * b.avg_s.den < b.avg_s.num * a.avg_s.den
      [] sort_by = "count" -> a.count < b.count
      [] sort_by = "max" -> a.max_s < b.max_s
      [] sort_by = "min" -> a.min_s < b.min_s
      [] sort_by = "task" -> StrLess(lower(a.task), lower(b.task))

\* x goes before e: list.sort is stable, and stable under reverse=True too.
Precedes(sort_by, descending, x, e) ==
    IF descending THEN KeyLess(sort_by, e, x) ELSE KeyLess(sort_by, x, e)

RECURSIVE Insert(_, _, _, _)
Insert(sort_by, descending, s, x) ==
    IF s = <<>> THEN <<x>>
    ELSE IF Precedes(sort_by, descending, x, Head(s)) THEN <<x>> \o s
    ELSE <<Head(s)>> \o Insert(sort_by, descending, Tail(s), x)

RECURSIVE sort(_, _, _)
sort(stats, sort_by, descending) ==
    IF stats = <<>> THEN <<>>
    ELSE Insert(sort_by, descending,
                sort(SubSeq(stats, 1, Len(stats) - 1), sort_by, descending),
                stats[Len(stats)])

\* s[:n] for n >= 0
Take(s, n) == SubSeq(s, 1, IF n < Len(s) THEN n ELSE Len(s))

\* stats[: max(0, int(limit))] when a limit is given
limited(stats, limit) ==
    IF limit.given THEN Take(stats, Max0(limit.n)) ELSE stats

\* summary_sort without the check of sort_by: an unknown key sorts nothing.
summary_sort_unchecked(t) ==
    /\ pc[t] = "sum_sort"
    /\ LET stats == limited(IF args[t].sort_by \in SortKeys
                            THEN sort(local[t].stats, args[t].sort_by,
                                      args[t].descending)
                            ELSE local[t].stats,
                            args[t].limit)
       IN /\ local' = [local EXCEPT
                ![t].stats = stats,
                ![t].i = IF stats = <<>> THEN 0 ELSE 1,
                ![t].rendered = [NoRendered EXCEPT !.nodata = stats = <<>>]]
          /\ Goto(t, IF stats = <<>> THEN "sum_level" ELSE "rn_cell")
          /\ UNCHANGED args
    /\ UNCHANGED <<shared, logger, timer, calls>>

\* The check of sort_by, stats.sort(...), the limit, and the start of
\* _render_summary: "(no data)" if not stats.
summary_sort(t) ==
    /\ pc[t] = "sum_sort"
    /\ IF args[t].sort_by \notin SortKeys
       THEN /\ Raise(t, "summary", "ValueError")
            /\ local' = [local EXCEPT ![t] = NoLocal]
       ELSE LET stats == limited(sort(local[t].stats, args[t].sort_by,
                                      args[t].descending),
                                 args[t].limit)
            IN /\ local' = [local EXCEPT
                     ![t].stats = stats,
                     ![t].i = IF stats = <<>> THEN 0 ELSE 1,
                     ![t].rendered = [NoRendered EXCEPT !.nodata = stats = <<>>]]
               /\ Goto(t, IF stats = <<>> THEN "sum_level" ELSE "rn_cell")
               /\ UNCHANGED args
    /\ UNCHANGED <<shared, logger, timer, calls>>

TaskWidth == 30

\* The duration of column c of a row: TOTAL, AVG, MIN, MAX, LAST.
Duration(s, c) ==
    CASE c = 1 -> [num |-> s.total_s, den |-> 1]
      [] c = 2 -> s.avg_s
      [] c = 3 -> [num |-> s.min_s, den |-> 1]
      [] c = 4 -> [num |-> s.max_s, den |-> 1]
      [] c = 5 -> [num |-> s.last_s, den |-> 1]

\* One self._fmt_time(...) of a row's f-string; the fifth ends the row.
render_cell(t) ==
    /\ pc[t] = "rn_cell"
    /\ LET s == local[t].stats[local[t].i]
           v == Duration(s, Len(local[t].cells) + 1)
           cells == Append(local[t].cells, fmt_time(time_unit, v.num, v.den))
       IN IF Len(cells) < 5
          THEN /\ local' = [local EXCEPT ![t].cells = cells]
               /\ Goto(t, "rn_cell")
          ELSE /\ local' = [local EXCEPT
                     ![t].cells = <<>>,
                     ![t].i = @ + 1,
                     ![t].rendered.rows =
                         Append(@, [task |-> Take(s.task, TaskWidth),
                                    count |-> s.count, cells |-> cells])]
               /\ Goto(t, IF local[t].i < Len(local[t].stats)
                          THEN "rn_cell" ELSE "rn_total")
    /\ UNCHANGED <<shared, logger, args, timer, calls>>

\* The total of every stored sample, whatever rows are shown.
grand_total_all(stats) ==
    sum([k \in 1..Len(records) |-> sum(heap[records[k].list])])

\* grand_total = sum(s.total_s for s in stats)
grand_total(stats) == sum([k \in 1..Len(stats) |-> stats[k].total_s])

render_total(t) ==
    /\ pc[t] = "rn_total"
    /\ local' = [local EXCEPT
          ![t].rendered.grand = fmt_time(time_unit, grand_total(local[t].stats), 1),
          ![t].i = 0]
    /\ Goto(t, "sum_level")
    /\ UNCHANGED <<shared, logger, args, timer, calls>>

\* self._summary_level, an argument of the log call
summary_read_level(t) ==
    /\ pc[t] = "sum_level"
    /\ local' = [local EXCEPT ![t].level = summary_level]
    /\ Goto(t, "sum_log")
    /\ UNCHANGED <<shared, logger, args, timer, calls>>

SummaryMessage(t) ==
    [kind |-> "summary", level |-> local[t].level, body |-> local[t].rendered]

\* ...log(level, rendered + "\n"): the logger takes the message and returns;
\* then `if reset: self.clear()`, or the return.
summary_log(t) ==
    /\ pc[t] = "sum_log"
    /\ sink' = Append(sink, SummaryMessage(t))
    /\ IF args[t].reset
       THEN Goto(t, "clr_lock") /\ UNCHANGED <<args, local>>
       ELSE summary_return(t)
    /\ UNCHANGED <<shared, handlers, timer, calls>>

\* A summary that swallows the logger's failure and goes on.
summary_log_masked(t) ==
    /\ pc[t] = "sum_log"
    /\ IF args[t].reset
       THEN Goto(t, "clr_lock") /\ UNCHANGED <<args, local>>
       ELSE summary_return(t)
    /\ UNCHANGED <<shared, logger, timer, calls>>

\* ...log(level, rendered + "\n"): the logger fails, and its error leaves
\* summary before `if reset` and before the return.
summary_log_fails(t) ==
    /\ pc[t] = "sum_log"
    /\ Raise(t, "summary", "LoggerError")
    /\ local' = [local EXCEPT ![t] = NoLocal]
    /\ UNCHANGED <<shared, logger, timer, calls>>

----------------------------------------------------------------------------
\* A sink that calls back into the tracker: while the logger is handing a
\* message of thread t to its sinks (t is inside bound.log or the summary's
\* log call), a sink calls tracker.clear() on that same thread, and the
\* emission goes on when clear() has returned.

CallbackPc ==
    [rec_log |-> [lock |-> "rec_cb_lock", clear |-> "rec_cb_clear",
                  unlock |-> "rec_cb_unlock"],
     sum_log |-> [lock |-> "sum_cb_lock", clear |-> "sum_cb_clear",
                  unlock |-> "sum_cb_unlock"]]

sink_calls_back(t, from) ==
    /\ pc[t] = from
    /\ calls < MaxCalls
    /\ calls' = calls + 1
    /\ Goto(t, CallbackPc[from].lock)
    /\ UNCHANGED <<shared, logger, args, timer, local>>

callback_lock(t, from) ==
    /\ pc[t] = CallbackPc[from].lock
    /\ Acquire(t)
    /\ Goto(t, CallbackPc[from].clear)
    /\ UNCHANGED <<records, heap, emit_each, time_unit, summary_level,
                   event_sink_ids, logger, args, timer, local, calls>>

callback_clear(t, from) ==
    /\ pc[t] = CallbackPc[from].clear
    /\ records' = <<>>
    /\ heap' = Collect(heap, <<>>, local)
    /\ Goto(t, CallbackPc[from].unlock)
    /\ UNCHANGED <<lock, emit_each, time_unit, summary_level, event_sink_ids,
                   logger, args, timer, local, calls>>

callback_unlock(t, from) ==
    /\ pc[t] = CallbackPc[from].unlock
    /\ Release(t)
    /\ Goto(t, from)
    /\ UNCHANGED <<records, heap, emit_each, time_unit, summary_level,
                   event_sink_ids, logger, args, timer, local, calls>>

Callback(t) ==
    \E from \in {"rec_log", "sum_log"} :
       \/ callback_lock(t, from)
       \/ callback_clear(t, from)
       \/ callback_unlock(t, from)

----------------------------------------------------------------------------
\* The steps inside the calls.

TimedScope(t, errors) ==
    \/ ctx(t)
    \/ enter(t)
    \/ exit(t, errors)
    \/ record_lock(t)
    \/ record_append(t)
    \/ record_unlock(t)
    \/ record_emit_each(t)
    \/ record_fmt(t)
    \/ record_log(t)
    \/ record_log_fails(t)

Configure(t) ==
    \/ configure_lock(t)
    \/ configure_emit_each(t)
    \/ configure_time_unit(t)
    \/ configure_summary_level(t)
    \/ configure_unlock(t)

AddEventSink(t) ==
    \/ logger_add(t)
    \/ logger_add_fails(t)
    \/ sink_lock(t)
    \/ sink_append(t)
    \/ sink_unlock(t)

Clear(t) ==
    \/ clear_lock(t)
    \/ clear_records(t)
    \/ clear_unlock(t)

ComputeStats(t) ==
    \/ compute_lock(t)
    \/ compute_items(t)
    \/ compute_unlock(t)
    \/ compute_sum(t)
    \/ compute_len(t)
    \/ compute_min(t)
    \/ compute_max(t)
    \/ compute_last(t)

Summary(t) ==
    \/ ComputeStats(t)
    \/ summary_sort(t)
    \/ render_cell(t)
    \/ render_total(t)
    \/ summary_read_level(t)
    \/ summary_log(t)
    \/ summary_log_fails(t)

Step(t, errors) ==
    \/ TimedScope(t, errors)
    \/ Configure(t)
    \/ AddEventSink(t)
    \/ Clear(t)
    \/ Summary(t)

----------------------------------------------------------------------------
\* Spec: threads calling one tracker concurrently.  The main thread makes
\* the first call (the threads are interchangeable).

TaskArgs == {Str(<<"a">>), Str(<<" ", "B">>)}

ConfigureChoices ==
    {ConfigureArgs("True", "ms", "DEBUG"), ConfigureArgs("False", "h", None)}

SummaryChoices ==
    {SummaryArgs("total", TRUE, NoLimit, FALSE),
     SummaryArgs("total", TRUE, NoLimit, TRUE)}

Next ==
    \E t \in Threads :
       \/ info(t, TaskArgs)
       \/ configure(t, ConfigureChoices)
       \/ add_event_sink(t)
       \/ clear(t)
       \/ summary(t, SummaryChoices)
       \/ Step(t, {})

Spec == Init /\ [][Next]_vars

----------------------------------------------------------------------------
\* SpecSeq: one thread calling the tracker, with every kind of argument.

SeqTaskArgs ==
    {NotAStr, Str(<<>>), Str(<<" ">>), Str(<<"a">>), Str(<<" ", "a", " ">>),
     Str(<<"B">>)}

LevelTaskArgs == {Str(<<" ">>), Str(<<"a">>)}

SeqConfigureChoices ==
    {ConfigureArgs("True", None, None), ConfigureArgs(None, "ms", "DEBUG"),
     ConfigureArgs("False", "h", "DEBUG"), ConfigureArgs("False", "s", None),
     ConfigureArgs(None, None, None)}

SeqSummaryChoices ==
    {SummaryArgs("total", TRUE, NoLimit, FALSE),
     SummaryArgs("total", TRUE, NoLimit, TRUE),
     SummaryArgs("task", FALSE, Limit(1), TRUE),
     SummaryArgs("name", TRUE, NoLimit, FALSE),
     SummaryArgs("name", FALSE, Limit(1), TRUE)}

NextSeq ==
    \/ trace(MainThread, LevelTaskArgs)
    \/ debug(MainThread, LevelTaskArgs)
    \/ info(MainThread, SeqTaskArgs)
    \/ success(MainThread, LevelTaskArgs)
    \/ warning(MainThread, LevelTaskArgs)
    \/ error(MainThread, LevelTaskArgs)
    \/ critical(MainThread, LevelTaskArgs)
    \/ exit_unentered(MainThread)
    \/ configure(MainThread, SeqConfigureChoices)
    \/ add_event_sink(MainThread)
    \/ clear(MainThread)
    \/ summary(MainThread, SeqSummaryChoices)
    \/ Step(MainThread, {"BlockError"})

SpecSeq == Init /\ [][NextSeq]_vars

----------------------------------------------------------------------------
\* SpecSum: one summary() of a store that earlier timer releases have
\* filled: up to three tasks in any order of first release, MaxSamples
\* samples in all.

StoreTasks == {<<"a">>, <<"B">>, <<"c">>}
SampleValues == {1, 2}

SampleLists(m) == UNION {[1..k -> SampleValues] : k \in 1..m}

TaskOrders ==
    {o \in UNION {[1..n -> StoreTasks] : n \in 0..Cardinality(StoreTasks)} :
        \A i, j \in 1..Len(o) : i # j => o[i] # o[j]}

Stores ==
    UNION {{[order |-> o, lists |-> l] :
               l \in {x \in [1..Len(o) -> SampleLists(MaxSamples - Len(o) + 1)] :
                         sum([k \in 1..Len(o) |-> Len(x[k])]) <= MaxSamples}} :
           o \in TaskOrders}

\* A tracker whose store holds st and that has `done` calls behind it.
InitStore(done) ==
    /\ \E st \in Stores :
          /\ records = [k \in 1..Len(st.order) |->
                           [task |-> st.order[k], list |-> k]]
          /\ heap = st.lists
    /\ lock = NoThread
    /\ emit_each = FALSE
    /\ time_unit = "s"
    /\ summary_level = "INFO"
    /\ event_sink_ids = <<>>
    /\ sink = <<>>
    /\ handlers = 0
    /\ pc = [t \in Threads |-> "idle"]
    /\ args = [t \in Threads |-> NoArgs]
    /\ timer = [t \in Threads |-> NoTimer]
    /\ local = [t \in Threads |-> NoLocal]
    /\ outcome = NoOutcome
    /\ calls = done

InitSum == InitStore(MaxCalls - 1)

SumSummaryChoices ==
    {SummaryArgs(s, d, l, FALSE) :
        s \in SortKeys, d \in BOOLEAN,
        l \in {NoLimit, Limit(-1), Limit(1), Limit(2)}}

NextSum ==
    \/ summary(MainThread, SumSummaryChoices)
    \/ Summary(MainThread)

SpecSum == InitSum /\ [][NextSum]_vars

----------------------------------------------------------------------------
\* SpecReset: on such a store, a summary(reset=True) and then one more
\* summary(), with no timer released in between.

InitReset == InitStore(MaxCalls - 2)

ResetSummaryChoices ==
    {SummaryArgs("total", TRUE, NoLimit, TRUE),
     SummaryArgs("task", FALSE, Limit(1), TRUE)}

NextSummaryChoices ==
    {SummaryArgs("total", TRUE, NoLimit, FALSE),
     SummaryArgs("count", FALSE, Limit(2), TRUE)}

NextReset ==
    \/ summary(MainThread, IF calls = MaxCalls - 2 THEN ResetSummaryChoices
                                                   ELSE NextSummaryChoices)
    \/ Summary(MainThread)
    \/ Clear(MainThread)

SpecReset == InitReset /\ [][NextReset]_vars

----------------------------------------------------------------------------
\* SpecEmit: threads releasing timers, switching emit_each and asking for
\* summaries, with no clear() and no reset.

EmitConfigureChoices ==
    {ConfigureArgs("True", None, None), ConfigureArgs("False", None, None)}

EmitSummaryChoices == {SummaryArgs("count", TRUE, NoLimit, FALSE)}

NextEmit ==
    \E t \in Threads :
       \/ info(t, TaskArgs)
       \/ configure(t, EmitConfigureChoices)
       \/ summary(t, EmitSummaryChoices)
       \/ TimedScope(t, {})
       \/ Configure(t)
       \/ Summary(t)

SpecEmit == Init /\ [][NextEmit]_vars

----------------------------------------------------------------------------
\* SpecLive: threads calling every operation, with sinks that may call
\* back, under a scheduler that lets no thread wait for ever at a step it
\* could take.

LiveTaskArgs == {Str(<<"a">>)}

LiveConfigureChoices ==
    {ConfigureArgs("True", None, None), ConfigureArgs(None, "h", None)}

LiveSummaryChoices == {SummaryArgs("total", TRUE, NoLimit, TRUE)}

NextLive ==
    \E t \in Threads :
       \/ info(t, LiveTaskArgs)
       \/ configure(t, LiveConfigureChoices)
       \/ add_event_sink(t)
       \/ clear(t)
       \/ summary(t, LiveSummaryChoices)
       \/ sink_calls_back(t, "rec_log")
       \/ sink_calls_back(t, "sum_log")
       \/ Step(t, {})
       \/ Callback(t)

\* What a thread that is inside a call does next, when it is scheduled.
Progress(t) == Step(t, {}) \/ Callback(t)

SpecLive ==
    Init /\ [][NextLive]_vars /\ \A t \in Threads : WF_vars(Progress(t))

----------------------------------------------------------------------------
\* What the claims speak of.

Tasks(recs) == {recs[k].task : k \in 1..Len(recs)}

\* A step of thread t from one place to another.
Moves(t, from, to) == pc[t] = from /\ pc'[t] = to

\* The sum of the first n samples of d, from the last one down.
RECURSIVE SumUpTo(_, _)
SumUpTo(d, n) == IF n = 0 THEN 0 ELSE d[n] + SumUpTo(d, n - 1)

Least(d) == CHOOSE m \in {d[k] : k \in 1..Len(d)} : \A k \in 1..Len(d) : m <= d[k]
Greatest(d) == CHOOSE m \in {d[k] : k \in 1..Len(d)} : \A k \in 1..Len(d) : m >= d[k]

\* The Statistics Record of a task whose samples are d.
RecordOf(task, d) ==
    [task |-> task, count |-> Len(d), total_s |-> SumUpTo(d, Len(d)),
     avg_s |-> [num |-> SumUpTo(d, Len(d)), den |-> Len(d)],
     min_s |-> Least(d), max_s |-> Greatest(d), last_s |-> d[Len(d)]]

----------------------------------------------------------------------------
\* C1: when one thread alone releases timers and then asks for a summary,
\* _compute_stats returns one record per task of the store and no other,
\* and the record of a task with the N >= 1 samples d has count N, total
\* the sum of d, avg total/count, min and max the least and greatest of d,
\* and last d[N]; and a release puts its sample at the end of its task's
\* samples, so that d[N] is the latest one.
C1_StatsMatch ==
    \A t \in Threads :
        pc[t] = "sum_sort" =>
            /\ Len(local[t].stats) = Len(records)
            /\ \A k \in 1..Len(records) :
                  /\ heap[records[k].list] # <<>>
                  /\ local[t].stats[k] =
                        RecordOf(records[k].task, heap[records[k].list])

C1_AppendsLast ==
    \A t \in Threads :
        Moves(t, "rec_append", "rec_unlock") =>
            Samples(records', heap', timer[t].task) =
                Append(Samples(records, heap, timer[t].task), local[t].elapsed)

C1_Statistics == []C1_StatsMatch /\ [][C1_AppendsLast]_vars

\* Two samples of one task, the first the larger: last = min < avg < max.
C1_Witness ==
    \E t \in Threads :
        /\ pc[t] = "sum_sort"
        /\ \E k \in 1..Len(local[t].stats) :
              LET r == local[t].stats[k]
              IN /\ r.count = 2
                 /\ r.last_s = r.min_s
                 /\ r.min_s < r.max_s
                 /\ r.total_s = r.min_s + r.max_s

----------------------------------------------------------------------------
\* C2: when the guarded block of a scoped timer raised an error, the timed
\* scope ends by raising that same error to the caller, and the sample of
\* the invocation is in the store: on every exit path, whatever emit_each
\* is and whatever the logger does with the per-event line.
TimedPlaces == {"rec_lock", "rec_append", "rec_unlock", "rec_emit", "rec_fmt", "rec_log"}

C2_Propagates ==
    \A t \in Threads :
        (pc[t] \in TimedPlaces /\ pc'[t] = "idle" /\ local[t].exc # "None") =>
            /\ outcome' = [thread |-> t, op |-> "timed", kind |-> "raised",
                           value |-> local[t].exc, reset |-> FALSE]
            /\ Samples(records', heap', timer[t].task) # <<>>
            /\ last(Samples(records', heap', timer[t].task)) = local[t].elapsed

C2_ErrorPropagatesUnchanged == [][C2_Propagates]_vars

----------------------------------------------------------------------------
\* C6: a level entry point called with an empty or whitespace-only task
\* name (or with no string at all) raises ValueError at once: no timer is
\* made, no start instant is taken, and the store, the configuration and
\* the logger are as they were.
Blank(task) ==
    ~task.isStr \/ \A k \in 1..Len(task.chars) : task.chars[k] = " "

C6_Rejects ==
    \A t \in Threads :
        (pc[t] = "ctx" /\ pc'[t] # "ctx" /\ Blank(args[t].task)) =>
            /\ outcome' = [thread |-> t, op |-> "timed", kind |-> "raised",
                           value |-> "ValueError", reset |-> FALSE]
            /\ pc'[t] = "idle"
            /\ timer'[t] = NoTimer
            /\ UNCHANGED <<shared, logger>>

C6_TimedPlacesNamed ==
    \A t \in Threads :
        pc[t] \in {"with", "body"} \cup TimedPlaces =>
            /\ timer[t].task # <<>>
            /\ timer[t].task[1] # " "
            /\ timer[t].task[Len(timer[t].task)] # " "
            /\ timer[t].level \in Levels

C6_BlankTaskRejected == [][C6_Rejects]_vars /\ []C6_TimedPlacesNamed

\* An entry point has just rejected its task name, after an earlier call.
C6_Witness ==
    /\ outcome.op = "timed"
    /\ outcome.kind = "raised"
    /\ outcome.value = "ValueError"
    /\ calls > 1

----------------------------------------------------------------------------
\* C7: summary() with a sort_by that is not one of total, avg, count, max,
\* min, task raises ValueError; no step of that call gives the logger a
\* message or changes the store, reset=True or not.
KnownSortKeys == {"total", "avg", "count", "max", "min", "task"}

C7_Rejects ==
    \A t \in Threads :
        (args[t].op = "summary" /\ args[t].sort_by \notin KnownSortKeys
            /\ pc'[t] # pc[t]) =>
            /\ UNCHANGED <<records, sink, handlers>>
            /\ \A k \in 1..Len(records) :
                  heap'[records[k].list] = heap[records[k].list]
            /\ pc'[t] = "idle" =>
                  outcome' = [thread |-> t, op |-> "summary", kind |-> "raised",
                              value |-> "ValueError", reset |-> args[t].reset]
            /\ pc[t] = "sum_sort" => pc'[t] = "idle"

C7_UnknownSortKeyRejected == [][C7_Rejects]_vars

\* summary(sort_by="name", reset=True) has just been rejected, samples kept.
C7_Witness ==
    /\ outcome.op = "summary"
    /\ outcome.kind = "raised"
    /\ outcome.value = "ValueError"
    /\ outcome.reset
    /\ records # <<>>

----------------------------------------------------------------------------
\* C8: a configure() call that rejects its time_unit leaves emit_each,
\* time_unit and summary_level as they were: no step of such a call changes
\* any of them.
KnownTimeUnits == {"ms", "s"}

C8_AllOrNothing ==
    \A t \in Threads :
        (args[t].op = "configure" /\ pc'[t] # pc[t]
            /\ args[t].time_unit # None
            /\ args[t].time_unit \notin KnownTimeUnits) =>
            UNCHANGED <<emit_each, time_unit, summary_level>>

C8_ConfigureAtomic == [][C8_AllOrNothing]_vars

----------------------------------------------------------------------------
\* C3: no lost updates.  With threads releasing timers concurrently, the
\* append of a release adds exactly one sample to the store, to its own
\* task and at no other task's cost; no other step but the clear changes
\* any task's samples; and a release ends only after its append.  So K
\* releases with no clear in between leave K samples, each task holding as
\* many as were released under its name.
C3_AppendAddsOne ==
    \A t \in Threads :
        Moves(t, "rec_append", "rec_unlock") =>
            /\ Tasks(records') = Tasks(records) \cup {timer[t].task}
            /\ TotalSamples(records', heap') = TotalSamples(records, heap) + 1
            /\ \A task \in Tasks(records') :
                  Len(Samples(records', heap', task)) =
                      Len(Samples(records, heap, task))
                          + (IF task = timer[t].task THEN 1 ELSE 0)

C3_OthersKeep ==
    (\A t \in Threads :
        ~Moves(t, "rec_append", "rec_unlock") /\ ~Moves(t, "clr_clear", "clr_unlock"))
    => /\ Tasks(records') = Tasks(records)
       /\ \A task \in Tasks(records) :
             Samples(records', heap', task) = Samples(records, heap, task)

C3_ReleaseAppends ==
    \A t \in Threads :
        (pc[t] \in TimedPlaces /\ pc'[t] = "idle") => pc[t] \in {"rec_emit", "rec_log"}

C3_NoLostUpdates ==
    [][C3_AppendAddsOne /\ C3_OthersKeep /\ C3_ReleaseAppends]_vars

\* Two threads were inside their blocks together, released under one task
\* name, and both samples are in the store.
C3_Witness ==
    \E t, u \in Threads :
        /\ t # u
        /\ pc[t] = "rec_unlock"
        /\ pc[u] \in {"rec_emit", "rec_fmt", "rec_log"}
        /\ timer[t].task = timer[u].task
        /\ Len(Samples(records, heap, timer[t].task)) = 2
        /\ TotalSamples(records, heap) = 2

----------------------------------------------------------------------------
\* C9: whenever a thread is at a step that reads or writes the store (the
\* dict or the samples of a list in it) or a field of the configuration,
\* that thread holds the lock.
StorePlaces ==
    {"rec_append", "clr_clear", "cs_items", "cs_sum", "cs_len", "cs_min",
     "cs_max", "cs_last"}

ConfigurationPlaces ==
    {"cfg_emit", "cfg_unit", "cfg_level", "rec_emit", "rec_fmt", "rn_cell",
     "rn_total", "sum_level"}

C9_AccessUnderLock ==
    \A t \in Threads :
        pc[t] \in StorePlaces \cup ConfigurationPlaces => lock = t

----------------------------------------------------------------------------
\* C10: a thread that is inside a call of the logger (the per-event line
\* of a release, the message of a summary, the registration of a sink)
\* does not hold the lock.
LoggerPlaces == {"rec_log", "sum_log", "sink_add"}

C10_LoggerOutsideLock ==
    \A t \in Threads : pc[t] \in LoggerPlaces => lock # t

\* One thread is emitting its per-event line while another, holding the
\* lock, appends its own sample.
C10_Witness ==
    \E t, u \in Threads :
        /\ pc[t] = "rec_log"
        /\ pc[u] = "rec_append"
        /\ lock = u

----------------------------------------------------------------------------
\* What a summary shows, said without the code's sort: the record of each
\* stored task, its key as a fraction, and its row for time_unit "s".
StoredRecord(k) == RecordOf(records[k].task, heap[records[k].list])

\* The place of a task's lower-cased name in the order of strings.
NameRank(task) ==
    CASE task = <<"a">> -> 1 [] task = <<"B">> -> 2 [] task = <<"c">> -> 3
      [] OTHER -> 0

KeyOf(sort_by, r) ==
    CASE sort_by = "total" -> [num |-> r.total_s, den |-> 1]
      [] sort_by = "avg" -> [num |-> r.total_s, den |-> r.count]
      [] sort_by = "count" -> [num |-> r.count, den |-> 1]
      [] sort_by = "max" -> [num |-> r.max_s, den |-> 1]
      [] sort_by = "min" -> [num |-> r.min_s, den |-> 1]
      [] sort_by = "task" -> [num |-> NameRank(r.task), den |-> 1]

\* In the requested direction, r belongs strictly before q.
StrictlyBefore(sort_by, descending, r, q) ==
    LET x == KeyOf(sort_by, r)
        y == KeyOf(sort_by, q)
    IN IF descending THEN x.num * y.den > y.num * x.den
       ELSE x.num * y.den < y.num * x.den

InSeconds(num, den) == [unit |-> "s", num |-> num, den |-> den]

RowOf(r) ==
    [task |-> r.task, count |-> r.count,
     cells |-> <<InSeconds(r.total_s, 1), InSeconds(r.total_s, r.count),
                 InSeconds(r.min_s, 1), InSeconds(r.max_s, 1),
                 InSeconds(r.last_s, 1)>>]

\* How many rows a limit lets through, of n.
Shown(limit, n) ==
    IF ~limit.given THEN n
    ELSE IF limit.n <= 0 THEN 0
    ELSE IF limit.n < n THEN limit.n ELSE n

RECURSIVE RowTotals(_)
RowTotals(rows) ==
    IF rows = <<>> THEN 0 ELSE rows[1].cells[1].num + RowTotals(Tail(rows))

\* The stored tasks the rows show, row by row: a choice of m distinct ones.
Choices(m) ==
    {c \in [1..m -> 1..Len(records)] :
        \A i, j \in 1..m : i # j => c[i] # c[j]}

----------------------------------------------------------------------------
\* C4: when summary(sort_by, descending, limit) has rendered, its rows are
\* the records of max(0, limit) stored tasks (of all of them with no limit),
\* in the order of the chosen key and direction, with no task left out
\* that belongs strictly before a task shown; the grand total is the sum
\* of the totals of the rows shown; and a limit <= 0 shows no row and
\* raises nothing.
C4_Rendered ==
    \A t \in Threads :
        (args[t].op = "summary" /\ pc[t] = "sum_level") =>
            LET rows == local[t].rendered.rows
                a == args[t]
                m == Shown(a.limit, Len(records))
            IN /\ Len(rows) = m
               /\ local[t].rendered.nodata = (m = 0)
               /\ m > 0 => local[t].rendered.grand = InSeconds(RowTotals(rows), 1)
               /\ \E c \in Choices(m) :
                     /\ \A i \in 1..m : rows[i] = RowOf(StoredRecord(c[i]))
                     /\ \A i, j \in 1..m :
                           i < j => ~StrictlyBefore(a.sort_by, a.descending,
                                                    StoredRecord(c[j]),
                                                    StoredRecord(c[i]))
                     /\ \A k \in 1..Len(records), i \in 1..m :
                           (\A j \in 1..m : c[j] # k) =>
                               ~StrictlyBefore(a.sort_by, a.descending,
                                               StoredRecord(k),
                                               StoredRecord(c[i]))

C4_LimitAccepted ==
    \A t \in Threads :
        (pc[t] = "sum_sort" /\ pc'[t] # "sum_sort"
            /\ args[t].limit.given /\ args[t].limit.n <= 0) =>
            /\ pc'[t] = "sum_level"
            /\ local'[t].rendered.rows = <<>>

C4_SortLimitGrandTotal == []C4_Rendered /\ [][C4_LimitAccepted]_vars

\* Three tasks stored, a limit of two: two rows, and a grand total that is
\* less than the total of all that is stored.
C4_Witness ==
    \E t \in Threads :
        /\ args[t].op = "summary"
        /\ pc[t] = "sum_level"
        /\ Len(records) = 3
        /\ args[t].limit = Limit(2)
        /\ Len(local[t].rendered.rows) = 2
        /\ local[t].rendered.grand.num < sum([k \in 1..3 |-> sum(heap[records[k].list])])

----------------------------------------------------------------------------
\* C5: summary(reset=True) emits and returns what it rendered from the
\* samples that are still in the store when it turns to the clear: no step
\* of the call before the clear touches the store, and the clear comes
\* after the emission.  Once that call has returned the store is empty,
\* and the next summary(), with no timer released meanwhile, renders
\* "(no data)".
C5_RenderedFromStore ==
    \A t \in Threads :
        (args[t].op = "summary" /\ pc[t] \in {"clr_lock", "clr_clear"}) =>
            LET rows == local[t].rendered.rows
                m == Shown(args[t].limit, Len(records))
            IN /\ args[t].reset
               /\ sink # <<>>
               /\ sink[Len(sink)].kind = "summary"
               /\ sink[Len(sink)].body = local[t].rendered
               /\ Len(rows) = m
               /\ local[t].rendered.nodata = (m = 0)
               /\ \E c \in Choices(m) :
                     \A i \in 1..m : rows[i] = RowOf(StoredRecord(c[i]))

C5_OnlyTheClearClears ==
    \A t \in Threads :
        (args[t].op = "summary" /\ ~Moves(t, "clr_clear", "clr_unlock")) =>
            /\ UNCHANGED records
            /\ \A k \in 1..Len(records) :
                  heap'[records[k].list] = heap[records[k].list]

C5_EmptyOnceReturned ==
    (outcome.op = "summary" /\ outcome.kind = "returned" /\ outcome.reset) =>
        records = <<>>

\* The second call: the first has emitted, so it has cleared and returned.
C5_ThenNoData ==
    \A t \in Threads :
        (calls = MaxCalls /\ args[t].op = "summary" /\ sink # <<>>
            /\ pc[t] \in {"sum_level", "sum_log"}) =>
            /\ records = <<>>
            /\ local[t].rendered = [NoRendered EXCEPT !.nodata = TRUE]

C5_ResetAfterRender ==
    /\ [](C5_RenderedFromStore /\ C5_EmptyOnceReturned /\ C5_ThenNoData)
    /\ [][C5_OnlyTheClearClears]_vars

\* The first summary showed rows; the second has rendered "(no data)".
C5_Witness ==
    \E t \in Threads :
        /\ calls = MaxCalls
        /\ pc[t] = "sum_log"
        /\ local[t].rendered.nodata
        /\ Len(sink) = 1
        /\ sink[1].body.rows # <<>>

----------------------------------------------------------------------------
\* C11: every sample in the store is >= 0, and so is the elapsed time a
\* release carries to _record: whatever the two clock readings are (the
\* second below the first too), and for a timer released without having
\* been entered.
C11_SamplesNonNegative ==
    /\ \A id \in 1..Len(heap) : \A k \in 1..Len(heap[id]) : heap[id][k] >= 0
    /\ \A t \in Threads : local[t].elapsed >= 0

\* A timer that was never entered has put its sample, 0, in the store.
C11_Witness ==
    \E t \in Threads :
        /\ pc[t] = "rec_unlock"
        /\ timer[t].t0 = NoInstant
        /\ Samples(records, heap, timer[t].task) # <<>>
        /\ last(Samples(records, heap, timer[t].task)) = 0

----------------------------------------------------------------------------
\* C12: when the logger fails to take a message (the step leaves the call
\* of the logger and the logger holds no new message), the call that was
\* emitting ends there by raising the logger's error: a release after its
\* sample has been appended; a summary without returning text and, with
\* reset=True, without clearing the store.  The emission is not tried again.
C12_Propagates ==
    \A t \in Threads :
        /\ (pc[t] = "rec_log" /\ pc'[t] # "rec_log" /\ sink' = sink) =>
              /\ pc'[t] = "idle"
              /\ outcome' = [thread |-> t, op |-> "timed", kind |-> "raised",
                             value |-> "LoggerError", reset |-> FALSE]
              /\ UNCHANGED <<records, heap>>
              /\ Samples(records, heap, timer[t].task) # <<>>
              /\ last(Samples(records, heap, timer[t].task)) = local[t].elapsed
        /\ (pc[t] = "sum_log" /\ pc'[t] # "sum_log" /\ sink' = sink) =>
              /\ pc'[t] = "idle"
              /\ outcome' = [thread |-> t, op |-> "summary", kind |-> "raised",
                             value |-> "LoggerError", reset |-> args[t].reset]
              /\ UNCHANGED <<records, heap>>

C12_LoggerFailurePropagates == [][C12_Propagates]_vars

\* summary(reset=True) has just raised the logger's error, the store kept.
C12_Witness ==
    /\ outcome.op = "summary"
    /\ outcome.kind = "raised"
    /\ outcome.value = "LoggerError"
    /\ outcome.reset
    /\ records # <<>>

----------------------------------------------------------------------------
\* C13: the clearing step of clear() leaves the store with no task at all,
\* the store is empty when clear() returns to its one caller, and no step
\* of a clear() changes emit_each, time_unit, summary_level or the list of
\* sink ids (or gives the logger anything).
C13_ClearSteps ==
    \A t \in Threads :
        (args[t].op = "clear" /\ pc'[t] # pc[t]) =>
            /\ UNCHANGED <<emit_each, time_unit, summary_level,
                           event_sink_ids, sink, handlers>>
            /\ Moves(t, "clr_clear", "clr_unlock") => records' = <<>>
            /\ pc'[t] = "idle" =>
                  outcome' = [thread |-> t, op |-> "clear", kind |-> "returned",
                              value |-> "None", reset |-> FALSE]

C13_EmptyOnReturn ==
    (outcome.op = "clear" /\ outcome.kind = "returned") =>
        /\ records = <<>>
        /\ \A task \in StoreTasks \cup {<<"a">>, <<"B">>} :
              Samples(records, heap, task) = <<>>

C13_ClearFrame == [][C13_ClearSteps]_vars /\ []C13_EmptyOnReturn

\* clear() has returned on a tracker that was set to emit and had emitted
\* the line of a release: the sample is gone, emit_each is still on.
C13_Witness ==
    /\ outcome.op = "clear"
    /\ outcome.kind = "returned"
    /\ emit_each
    /\ \E k \in 1..Len(sink) : sink[k].kind = "event"
    /\ records = <<>>

----------------------------------------------------------------------------
\* C14: every record that _compute_stats has produced has
\* min <= avg <= max and min <= last <= max, with other threads releasing
\* timers of the same task while the summary computes.
C14_RecordOrdered ==
    \A t \in Threads :
        \A k \in 1..Len(local[t].stats) :
            LET r == local[t].stats[k]
            IN /\ r.min_s * r.avg_s.den <= r.avg_s.num
               /\ r.avg_s.num <= r.max_s * r.avg_s.den
               /\ r.min_s <= r.last_s
               /\ r.last_s <= r.max_s

----------------------------------------------------------------------------
\* C15: the record _compute_stats produces for a task is the record of one
\* sample sequence: of the task's list as it was when the lock was held,
\* which is a beginning of the list as it is when the record is made (a
\* list only grows).  So count, total, min, max and last all belong to one
\* and the same beginning of the list.
C15_OneSequence ==
    \A t \in Threads :
        (pc[t] = "cs_last" /\ pc'[t] # "cs_last") =>
            LET d == d_of(t)
                r == local'[t].stats[Len(local'[t].stats)]
            IN \E n \in 1..Len(d) :
                  r = RecordOf(local[t].items[local[t].i].task, SubSeq(d, 1, n))

C15_SnapshotConsistent == [][C15_OneSequence]_vars

----------------------------------------------------------------------------
\* C16: with no clear, every per-event line has its sample in the store
\* from before the logger is called: for each task, the lines the logger
\* holds plus the releases that are past their append number no more than
\* the task's samples, and a summary that reads a task's count counts a
\* sample for every line emitted so far.  A release gives the logger one
\* line, as the last thing it does, and none when it read emit_each off.
EventLines(task) ==
    Cardinality({k \in 1..Len(sink) :
                    sink[k].kind = "event" /\ sink[k].task = task})

PastAppend(task) ==
    Cardinality({t \in Threads :
                    /\ pc[t] \in {"rec_unlock", "rec_emit", "rec_fmt", "rec_log"}
                    /\ timer[t].task = task})

C16_Appended ==
    /\ \A t \in Threads :
          pc[t] = "rec_log" =>
              \E k \in 1..Len(Samples(records, heap, timer[t].task)) :
                  Samples(records, heap, timer[t].task)[k] = local[t].elapsed
    /\ \A task \in {<<"a">>, <<"B">>} :
          EventLines(task) + PastAppend(task) <= Len(Samples(records, heap, task))

C16_Steps ==
    \A t \in Threads :
        /\ Moves(t, "cs_len", "cs_min") =>
              local'[t].cur.count >= EventLines(local[t].items[local[t].i].task)
        /\ (pc[t] \in TimedPlaces \cup {"ctx", "with", "body"} /\ pc'[t] # pc[t]) =>
              IF sink' # sink
              THEN /\ pc[t] = "rec_log"
                   /\ pc'[t] = "idle"
                   /\ Len(sink') = Len(sink) + 1
                   /\ sink'[Len(sink')].kind = "event"
                   /\ sink'[Len(sink')].task = timer[t].task
                   /\ sink'[Len(sink')].elapsed_s = local[t].elapsed
              ELSE pc[t] = "rec_emit" /\ ~emit_each => pc'[t] = "idle"

C16_EmissionAfterAppend == []C16_Appended /\ [][C16_Steps]_vars

\* A line is with the logger, and a summary has counted its task.
C16_Witness ==
    \E u \in Threads, k \in 1..Len(sink) :
        /\ sink[k].kind = "event"
        /\ pc[u] = "sum_sort"
        /\ \E j \in 1..Len(local[u].stats) :
              /\ local[u].stats[j].task = sink[k].task
              /\ local[u].stats[j].count >= 1

----------------------------------------------------------------------------
\* C17: the store is append-only.  In any step but the clearing step of a
\* clear() or of a summary(reset=True), every task keeps its sequence or
\* has it extended by one element at the end; the append of a release
\* extends the sequence of its timer's task only, and that task is the
\* name the caller gave with the whitespace trimmed off both ends; no step
\* of a configure or of a summary without reset changes the store; and the
\* keys of the store are distinct.
IsTrimOf(x, s) ==
    \E i \in 1..(Len(s) + 1), j \in 0..Len(s) :
        /\ x = SubSeq(s, i, j)
        /\ \A k \in 1..Len(s) : (k < i \/ k > j) => s[k] = " "
        /\ x # <<>> => (x[1] # " " /\ x[Len(x)] # " ")

Extends(new, old) ==
    \/ new = old
    \/ Len(new) = Len(old) + 1 /\ SubSeq(new, 1, Len(old)) = old

C17_Step ==
    /\ (\A t \in Threads : ~Moves(t, "clr_clear", "clr_unlock")) =>
          \A task \in Tasks(records) :
              Extends(Samples(records', heap', task), Samples(records, heap, task))
    /\ \A t \in Threads :
          /\ Moves(t, "rec_append", "rec_unlock") =>
                /\ Len(Samples(records', heap', timer[t].task)) =
                       Len(Samples(records, heap, timer[t].task)) + 1
                /\ \A task \in Tasks(records') \ {timer[t].task} :
                       Samples(records', heap', task) = Samples(records, heap, task)
          /\ Moves(t, "ctx", "with") =>
                IsTrimOf(timer'[t].task, args[t].task.chars)
          /\ (pc[t] \in {"with", "body", "rec_lock"} /\ pc'[t] # pc[t]) =>
                timer'[t].task = timer[t].task
          /\ ((args[t].op = "configure" \/ (args[t].op = "summary" /\ ~args[t].reset))
                  /\ pc'[t] # pc[t]) =>
                /\ Tasks(records') = Tasks(records)
                /\ \A task \in Tasks(records) :
                       Samples(records', heap', task) = Samples(records, heap, task)

C17_KeysUnique ==
    \A i, j \in 1..Len(records) : i # j => records[i].task # records[j].task

C17_AppendOnly == [][C17_Step]_vars /\ []C17_KeysUnique

\* A release under the name " B" has made the samples of "B" two, the
\* first as it was, beside the samples of "a".
C17_Witness ==
    \E t \in Threads :
        /\ pc[t] = "rec_unlock"
        /\ timer[t].task = <<"B">>
        /\ Len(Samples(records, heap, <<"B">>)) = 2
        /\ Samples(records, heap, <<"B">>)[1] # Samples(records, heap, <<"B">>)[2]
        /\ Samples(records, heap, <<"a">>) # <<>>

----------------------------------------------------------------------------
\* C18: under fair scheduling every operation a thread has started ends
\* (it returns, or raises), whatever the other thread does: a thread that
\* is not idle becomes idle.  And a thread that is idle does not hold the
\* lock: every path out of an operation, the rejection in configure
\* included, has let it go.
C18_LockReleased ==
    \A t \in Threads : pc[t] = "idle" => lock # t

C18_NoBlocking ==
    /\ []C18_LockReleased
    /\ \A t \in Threads : (pc[t] # "idle") ~> (pc[t] = "idle")

\* A sink called by a summary(reset=True) has called back into the tracker
\* and holds the lock, while the other thread waits for it.
C18_Witness ==
    \E t, u \in Threads :
        /\ pc[t] = "sum_cb_clear"
        /\ args[t].reset
        /\ lock = t
        /\ pc[u] \in {"rec_lock", "cfg_lock", "clr_lock", "cs_lock", "sink_lock"}

----------------------------------------------------------------------------
\* C19: when a summary(reset=True) is about to clear the store, with the
\* lock held, every sample in the store is in the statistics this call
\* rendered: each stored task has a row, and the row counts and totals all
\* of the task's samples.
C19_ResetDiscardsOnlyReported ==
    \A t \in Threads :
        (args[t].op = "summary" /\ pc[t] = "clr_clear" /\ ~args[t].limit.given) =>
            \A k \in 1..Len(records) :
                \E i \in 1..Len(local[t].rendered.rows) :
                    LET row == local[t].rendered.rows[i]
                        d == heap[records[k].list]
                    IN /\ row.task = records[k].task
                       /\ row.count = Len(d)
                       /\ row.cells[1].num =
                             SumUpTo(d, Len(d))
                                 * (IF row.cells[1].unit = "ms" THEN 1000 ELSE 1)

----------------------------------------------------------------------------
\* C20: when a summary is ready to be emitted, every duration of its table
\* (the five of each row and the grand total) is in one unit, and that
\* unit and the severity of the emission are a time_unit and a
\* summary_level the tracker held together at some moment: here the
\* defaults, or those of configure(time_unit="ms", summary_level="DEBUG"),
\* or the unit of that call before its level is assigned.
HeldTogether == {<<"s", "INFO">>, <<"ms", "INFO">>, <<"ms", "DEBUG">>}

C20_OneConfiguration ==
    \A t \in Threads :
        (pc[t] = "sum_log" /\ local[t].rendered.rows # <<>>) =>
            LET r == local[t].rendered
            IN \E u \in {"s", "ms"} :
                  /\ r.grand.unit = u
                  /\ \A i \in 1..Len(r.rows) :
                        \A c \in 1..Len(r.rows[i].cells) :
                            r.rows[i].cells[c].unit = u
                  /\ <<u, local[t].level>> \in HeldTogether

====
